---- MODULE Spec2Model ----
(***************************************************************************)
(* Model of the zane-ops CDN worker (src/src/index.ts, first handler):     *)
(* the visitor registry (ip_registry), the ping event log (ip_pings), the  *)
(* throttled POST /api/ping handler, GET /makefile, and the query          *)
(* parameter resolution of GET /api/pings/unique-activity.                 *)
(*                                                                         *)
(* A request is a process: every statement it awaits on the database is   *)
(* one atomic step, and so is its reading of the clock.  Time is in        *)
(* milliseconds, as Date.getTime() gives it.                               *)
(***************************************************************************)
EXTENDS Integers, Sequences, FiniteSets, TLC

\* ------------------------------------------------------------------ bounds
MaxReq == 3
MaxTicks == 2
MaxQueryLen == 3

Reqs == 1..MaxReq

\* ------------------------------------------------------------- JS values
null == "<null>"
Truthy(v) == v \notin {null, ""}

\* Caller addresses the cf-connecting-ip header can carry; null = no header.
AddrSeq == <<"198.51.100.7", "203.0.113.9">>
Addrs == {AddrSeq[k] : k \in DOMAIN AddrSeq}
Headers == Addrs \cup {null}

\* env.IP_HASH_PEPPER
env == [IP_HASH_PEPPER |-> "pepper-1"]

\* ---------------------------------------------------------------- hasher
\* The digests are modelled symbolically: a digest is the term that names
\* the primitive and its inputs, so two digests are equal only if they were
\* computed from the same inputs.
generate256Hash(message) == <<"SHA-256", message>>

generateHMAC256(message, secret) == <<"HMAC-SHA-256", secret, message>>

\* The double hash keyed with a constant instead of the secret.
generateDoubleHash_ConstantKey(ipaddr, secret) ==
    generateHMAC256(generate256Hash(ipaddr), "key")

generateDoubleHash(ipaddr, secret) ==
    generateHMAC256(generate256Hash(ipaddr), secret)

\* ------------------------------------------------------------- durations
multipliers ==
    [seconds |-> 1000,
     minutes |-> 60 * 1000,
     hours   |-> 60 * 60 * 1000,
     days    |-> 24 * 60 * 60 * 1000,
     weeks   |-> 7 * 24 * 60 * 60 * 1000]

durationToMs(value, unit) == value * multipliers[unit]

\* The amounts by which the clock advances between two steps: one
\* millisecond, and one millisecond less than thirty minutes, so that both
\* sides of the throttle boundary are reached exactly.
TickSteps == {1, durationToMs(30, "minutes") - 1}

VARIABLES
    now,               \* the wall clock, ms
    ticks,             \* how many times the clock has advanced
    ip_registry,       \* table ip_registry: sequence of rows [ip_hmac]
    ip_pings,          \* table ip_pings: sequence of rows [ip_hmac, ping_timestamp, by]
    pc,                \* per request: where it stands
    path,              \* per request: the route it was sent to
    ip,                \* per request: the cf-connecting-ip header
    ipHmac,            \* per request: the identifier upsertIp returned
    lastPingResult,    \* per request: result of the "last ping" SELECT
    currentTime,       \* per request: new Date() taken before the decision
    shouldRecordPing,  \* per request: the throttle decision
    response,          \* per request: the response sent
    query              \* the unique-activity request being resolved

dbvars == <<ip_registry, ip_pings>>
reqvars == <<pc, path, ip, ipHmac, lastPingResult, currentTime,
             shouldRecordPing, response>>
vars == <<now, ticks, ip_registry, ip_pings, pc, path, ip, ipHmac,
          lastPingResult, currentTime, shouldRecordPing, response, query>>

NoResponse == [status |-> 0, success |-> FALSE, message |-> ""]
NoQuery == [stage |-> "none"]

Init ==
    /\ now = 0
    /\ ticks = 0
    /\ ip_registry = << >>
    /\ ip_pings = << >>
    /\ pc = [r \in Reqs |-> "idle"]
    /\ path = [r \in Reqs |-> ""]
    /\ ip = [r \in Reqs |-> null]
    /\ ipHmac = [r \in Reqs |-> << >>]
    /\ lastPingResult = [r \in Reqs |-> << >>]
    /\ currentTime = [r \in Reqs |-> 0]
    /\ shouldRecordPing = [r \in Reqs |-> TRUE]
    /\ response = [r \in Reqs |-> NoResponse]
    /\ query = NoQuery

\* ------------------------------------------------------------ the tables
\* ip_registry has a uniqueness constraint on ip_hmac (the identifier is the
\* key of a VisitorIdentity): an insert conflicts when a row holds it.
Conflicts(rows, hmac) == \E i \in DOMAIN rows : rows[i].ip_hmac = hmac

\* The insert without its conflict clause taking effect.
InsertOrIgnore_Plain(rows, hmac) == Append(rows, [ip_hmac |-> hmac])

\* INSERT INTO ip_registry (ip_hmac) VALUES (?) ON CONFLICT DO NOTHING
InsertOrIgnore(rows, hmac) ==
    IF Conflicts(rows, hmac) THEN rows ELSE Append(rows, [ip_hmac |-> hmac])

\* upsertIp computing the identifier without inserting it.
upsertIp_HashOnly(rows, ipaddr) ==
    [hmac |-> generateDoubleHash(ipaddr, env.IP_HASH_PEPPER), registry |-> rows]

\* upsertIp: the identifier and the registry after the insert.
upsertIp(rows, ipaddr) ==
    LET hmac == generateDoubleHash(ipaddr, env.IP_HASH_PEPPER)
    IN  [hmac |-> hmac, registry |-> InsertOrIgnore(rows, hmac)]

\* ping_timestamp is not bound by the INSERT: the column's default, the
\* time of the insert, fills it.
CURRENT_TIMESTAMP == now

\* The insert as an upsert: the identifier's newest event is overwritten.
InsertPing_ReplaceLast(rows, hmac, r) ==
    LET S == {i \in DOMAIN rows : rows[i].ip_hmac = hmac}
        row == [ip_hmac |-> hmac, ping_timestamp |-> CURRENT_TIMESTAMP, by |-> r]
    IN  IF S = {} THEN Append(rows, row)
        ELSE [rows EXCEPT ![CHOOSE i \in S : \A j \in S : j <= i] = row]

\* INSERT INTO ip_pings (ip_hmac) VALUES (?)   (`by` names the request that
\* ran the statement; the program does not read it)
InsertPing(rows, hmac, r) ==
    Append(rows, [ip_hmac |-> hmac, ping_timestamp |-> CURRENT_TIMESTAMP,
                  by |-> r])

\* The SELECT ordered ASC: the oldest event of the identifier.
SelectLastPing_Oldest(rows, hmac) ==
    LET S == {i \in DOMAIN rows : rows[i].ip_hmac = hmac}
    IN  IF S = {} THEN << >>
        ELSE LET i == CHOOSE i \in S :
                        \A j \in S : rows[j].ping_timestamp >= rows[i].ping_timestamp
             IN  <<[ping_timestamp |-> rows[i].ping_timestamp]>>

\* The SELECT without its WHERE clause: the newest event of any identifier.
SelectLastPing_AnyIdentifier(rows, hmac) ==
    LET S == DOMAIN rows
    IN  IF S = {} THEN << >>
        ELSE LET i == CHOOSE i \in S :
                        \A j \in S : rows[j].ping_timestamp <= rows[i].ping_timestamp
             IN  <<[ping_timestamp |-> rows[i].ping_timestamp]>>

\* SELECT ping_timestamp FROM ip_pings WHERE ip_hmac = ?
\*   ORDER BY ping_timestamp DESC LIMIT 1   (.first(): no row, or one)
SelectLastPing(rows, hmac) ==
    LET S == {i \in DOMAIN rows : rows[i].ip_hmac = hmac}
    IN  IF S = {} THEN << >>
        ELSE LET i == CHOOSE i \in S :
                        \A j \in S : rows[j].ping_timestamp <= rows[i].ping_timestamp
             IN  <<[ping_timestamp |-> rows[i].ping_timestamp]>>

\* ------------------------------------------------------------ the throttle
\* minutesDifference >= 1, with minutesDifference the quotient of two
\* integers below 2^53: the quotient is at least 1 exactly when the
\* numerator is at least the denominator.
QuotientAtLeastOne_Strict(num, den) == num > den

QuotientAtLeastOne(num, den) == num >= den

\* The throttle with the interval taken in the wrong unit.
ShouldRecord_Seconds(last, current) ==
    IF Len(last) > 0
    THEN QuotientAtLeastOne(current - last[1].ping_timestamp,
                            durationToMs(30, "seconds"))
    ELSE TRUE

\* let shouldRecordPing = true; if (lastPingResult?.ping_timestamp) { ... }
ShouldRecord(last, current) ==
    IF Len(last) > 0
    THEN LET lastPingTime == last[1].ping_timestamp
         IN  QuotientAtLeastOne(current - lastPingTime,
                                durationToMs(30, "minutes"))
    ELSE TRUE

PingRecorded ==
    [status |-> 200, success |-> TRUE,
     message |-> "Ping recorded successfully"]
PingThrottled ==
    [status |-> 200, success |-> FALSE,
     message |-> "Ping not recorded - less than 30 minutes since last ping"]
PingNoAddress ==
    [status |-> 400, success |-> FALSE,
     message |-> "IP address not found in request"]
MakefileProxied ==
    [status |-> 200, success |-> FALSE, message |-> "<deploy.mk>"]

\* -------------------------------------------------------------- requests
\* Requests are numbered in the order they arrive, and addresses in the
\* order they are first seen.
Arrives(r, a) ==
    /\ pc[r] = "idle"
    /\ \A q \in Reqs : q < r => pc[q] # "idle"
    /\ \A k \in DOMAIN AddrSeq :
          (k > 1 /\ a = AddrSeq[k]) => \E q \in Reqs : ip[q] = AddrSeq[k - 1]

\* The clock advances.
Tick ==
    /\ ticks < MaxTicks
    /\ \E d \in TickSteps : now' = now + d
    /\ ticks' = ticks + 1
    /\ UNCHANGED <<dbvars, reqvars, query>>

\* GET /makefile: registers the caller if the header is there, then
\* proxies the file.
Makefile(r, a) ==
    /\ Arrives(r, a)
    /\ path' = [path EXCEPT ![r] = "/makefile"]
    /\ ip' = [ip EXCEPT ![r] = a]
    /\ IF Truthy(a)
       THEN LET u == upsertIp(ip_registry, a)
            IN  /\ ip_registry' = u.registry
                /\ ipHmac' = [ipHmac EXCEPT ![r] = u.hmac]
       ELSE UNCHANGED <<ip_registry, ipHmac>>
    /\ response' = [response EXCEPT ![r] = MakefileProxied]
    /\ pc' = [pc EXCEPT ![r] = "done"]
    /\ UNCHANGED <<now, ticks, ip_pings, lastPingResult, currentTime,
                   shouldRecordPing, query>>

\* POST /api/ping with upsertIp run before the header is looked at.
PingStart_UpsertFirst(r, a) ==
    /\ Arrives(r, a)
    /\ path' = [path EXCEPT ![r] = "/api/ping"]
    /\ ip' = [ip EXCEPT ![r] = a]
    /\ LET u == upsertIp(ip_registry, a)
       IN  /\ ip_registry' = u.registry
           /\ IF Truthy(a)
              THEN /\ ipHmac' = [ipHmac EXCEPT ![r] = u.hmac]
                   /\ pc' = [pc EXCEPT ![r] = "read"]
                   /\ UNCHANGED response
              ELSE /\ response' = [response EXCEPT ![r] = PingNoAddress]
                   /\ pc' = [pc EXCEPT ![r] = "done"]
                   /\ UNCHANGED ipHmac
    /\ UNCHANGED <<now, ticks, ip_pings, lastPingResult, currentTime,
                   shouldRecordPing, query>>

\* POST /api/ping, up to the first statement: the header is read; without
\* it the request is answered 400, with it upsertIp runs.
PingStart(r, a) ==
    /\ Arrives(r, a)
    /\ path' = [path EXCEPT ![r] = "/api/ping"]
    /\ ip' = [ip EXCEPT ![r] = a]
    /\ IF Truthy(a)
       THEN LET u == upsertIp(ip_registry, a)
            IN  /\ ip_registry' = u.registry
                /\ ipHmac' = [ipHmac EXCEPT ![r] = u.hmac]
                /\ pc' = [pc EXCEPT ![r] = "read"]
                /\ UNCHANGED response
       ELSE /\ response' = [response EXCEPT ![r] = PingNoAddress]
            /\ pc' = [pc EXCEPT ![r] = "done"]
            /\ UNCHANGED <<ip_registry, ipHmac>>
    /\ UNCHANGED <<now, ticks, ip_pings, lastPingResult, currentTime,
                   shouldRecordPing, query>>

\* POST /api/ping: the "last ping" SELECT.
PingReadLast(r) ==
    /\ pc[r] = "read"
    /\ lastPingResult' =
           [lastPingResult EXCEPT ![r] = SelectLastPing(ip_pings, ipHmac[r])]
    /\ pc' = [pc EXCEPT ![r] = "decide"]
    /\ UNCHANGED <<now, ticks, dbvars, path, ip, ipHmac, currentTime,
                   shouldRecordPing, response, query>>

\* The handler returns: the request is answered, and what it had read from
\* the table and from the clock goes out of scope.
Returns(r, resp) ==
    /\ response' = [response EXCEPT ![r] = resp]
    /\ pc' = [pc EXCEPT ![r] = "done"]
    /\ lastPingResult' = [lastPingResult EXCEPT ![r] = << >>]
    /\ currentTime' = [currentTime EXCEPT ![r] = 0]

\* The decision without the early exit of a rejected ping: the event is
\* appended all the same, and the ping is answered as throttled.
PingDecide_Fallthrough(r) ==
    /\ pc[r] = "decide"
    /\ LET record == ShouldRecord(lastPingResult[r], now)
       IN  /\ shouldRecordPing' = [shouldRecordPing EXCEPT ![r] = record]
           /\ IF record
              THEN /\ currentTime' = [currentTime EXCEPT ![r] = now]
                   /\ pc' = [pc EXCEPT ![r] = "insert"]
                   /\ UNCHANGED <<response, lastPingResult, ip_pings>>
              ELSE /\ ip_pings' = InsertPing(ip_pings, ipHmac[r], r)
                   /\ Returns(r, PingThrottled)
    /\ UNCHANGED <<now, ticks, ip_registry, path, ip, ipHmac, query>>

\* POST /api/ping: the clock is read and the throttle decides; a rejected
\* ping is answered here.
PingDecide(r) ==
    /\ pc[r] = "decide"
    /\ LET record == ShouldRecord(lastPingResult[r], now)
       IN  /\ shouldRecordPing' = [shouldRecordPing EXCEPT ![r] = record]
           /\ IF record
              THEN /\ currentTime' = [currentTime EXCEPT ![r] = now]
                   /\ pc' = [pc EXCEPT ![r] = "insert"]
                   /\ UNCHANGED <<response, lastPingResult>>
              ELSE Returns(r, PingThrottled)
    /\ UNCHANGED <<now, ticks, dbvars, path, ip, ipHmac, query>>

\* The insert statement prepared but never run: success is answered and
\* nothing is appended.
PingInsert_NotRun(r) ==
    /\ pc[r] = "insert"
    /\ Returns(r, PingRecorded)
    /\ UNCHANGED <<now, ticks, dbvars, path, ip, ipHmac, shouldRecordPing,
                   query>>

\* POST /api/ping: the event is appended and the ping is answered.
PingInsert(r) ==
    /\ pc[r] = "insert"
    /\ ip_pings' = InsertPing(ip_pings, ipHmac[r], r)
    /\ Returns(r, PingRecorded)
    /\ UNCHANGED <<now, ticks, ip_registry, path, ip, ipHmac,
                   shouldRecordPing, query>>

\* Any interleaving of the requests' steps.
Next ==
    \/ Tick
    \/ \E r \in Reqs, a \in Headers : Makefile(r, a)
    \/ \E r \in Reqs, a \in Headers : PingStart(r, a)
    \/ \E r \in Reqs : PingReadLast(r)
    \/ \E r \in Reqs : PingDecide(r)
    \/ \E r \in Reqs : PingInsert(r)

Spec == Init /\ [][Next]_vars

\* No ping of the caller at address a is under way.
NoPingInFlight(a) ==
    \A q \in Reqs : (path[q] = "/api/ping" /\ ip[q] = a) => pc[q] = "done"

\* Every ping of an identifier runs to completion before the next ping of
\* that identifier starts; requests of different identifiers interleave.
NextSeq ==
    \/ Tick
    \/ \E r \in Reqs, a \in Headers : Makefile(r, a)
    \/ \E r \in Reqs, a \in Headers : NoPingInFlight(a) /\ PingStart(r, a)
    \/ \E r \in Reqs : PingReadLast(r)
    \/ \E r \in Reqs : PingDecide(r)
    \/ \E r \in Reqs : PingInsert(r)

SeqSpec == Init /\ [][NextSeq]_vars

\* ------------------------------------------------- query parameters
\* A numeric query parameter as url.searchParams.get gives it: absent
\* (null), or a string, here a sequence of characters.
Chars == {"0", "1", "5", "-", " ", "a"}
Strings(n) == UNION {[1..k -> Chars] : k \in 0..n}
AbsentParam == [present |-> FALSE, text |-> << >>]
Param(text) == [present |-> TRUE, text |-> text]
TruthyParam(p) == p.present /\ Len(p.text) > 0

\* The page and pageSize parameters of one URL: MaxQueryLen bounds the
\* characters the two hold together.
NumericParams ==
    {AbsentParam} \cup {Param(t) : t \in Strings(MaxQueryLen)}
NumericParamPairs ==
    {pq \in NumericParams \X NumericParams :
        Len(pq[1].text) + Len(pq[2].text) <= MaxQueryLen}

\* The sortBy and sortOrder parameters: absent, empty, enumerated values,
\* and text outside of the enumeration.
SortByInputs ==
    {null, "", "first_seen", "total_pings", "last_seen", "drop table"}
SortOrderInputs ==
    {null, "", "asc", "desc", "ASC", "desc; drop table ip_pings"}

\* A JS number: NaN, or an integer.
NaN == [nan |-> TRUE, n |-> 0]
Num(n) == [nan |-> FALSE, n |-> n]
isNaN(x) == x.nan
LessThan(x, n) == ~x.nan /\ x.n < n
GreaterThan(x, n) == ~x.nan /\ x.n > n

DigitValue ==
    [c \in {"0", "1", "2", "3", "4", "5", "6", "7", "8", "9"} |->
        CASE c = "0" -> 0 [] c = "1" -> 1 [] c = "2" -> 2 [] c = "3" -> 3
          [] c = "4" -> 4 [] c = "5" -> 5 [] c = "6" -> 6 [] c = "7" -> 7
          [] c = "8" -> 8 [] c = "9" -> 9]
IsDigit(c) == c \in DOMAIN DigitValue

RECURSIVE TrimStart(_)
TrimStart(str) ==
    IF str # << >> /\ str[1] = " " THEN TrimStart(Tail(str)) ELSE str

RECURSIVE DigitPrefix(_)
DigitPrefix(str) ==
    IF str # << >> /\ IsDigit(str[1])
    THEN <<str[1]>> \o DigitPrefix(Tail(str))
    ELSE << >>

RECURSIVE DecimalValue(_)
DecimalValue(digits) ==
    IF digits = << >> THEN 0
    ELSE 10 * DecimalValue(SubSeq(digits, 1, Len(digits) - 1))
            + DigitValue[digits[Len(digits)]]

\* parseInt(string, 10): leading white space is skipped, a sign is taken,
\* the longest prefix of decimal digits is the value; without a digit the
\* result is NaN.
parseInt(str) ==
    LET S == TrimStart(str)
        negative == S # << >> /\ S[1] = "-"
        unsigned == IF S # << >> /\ S[1] \in {"+", "-"} THEN Tail(S) ELSE S
        Z == DigitPrefix(unsigned)
    IN  IF Z = << >> THEN NaN
        ELSE Num(IF negative THEN 0 - DecimalValue(Z) ELSE DecimalValue(Z))

\* let page = pageParam ? parseInt(pageParam, 10) : 1;
\* if (isNaN(page) || page < 1) page = 1;
ResolvePage(pageParam) ==
    LET page == IF TruthyParam(pageParam) THEN parseInt(pageParam.text)
                ELSE Num(1)
    IN  IF isNaN(page) \/ LessThan(page, 1) THEN 1 ELSE page.n

\* The page size without its upper clamp.
ResolvePageSize_NoMax(pageSizeParam) ==
    LET pageSize == IF TruthyParam(pageSizeParam)
                    THEN parseInt(pageSizeParam.text) ELSE Num(10)
    IN  IF isNaN(pageSize) \/ LessThan(pageSize, 1) THEN 10 ELSE pageSize.n

\* let pageSize = pageSizeParam ? parseInt(pageSizeParam, 10) : 10;
\* if (isNaN(pageSize) || pageSize < 1) pageSize = 10;
\* if (pageSize > 100) pageSize = 100;
ResolvePageSize(pageSizeParam) ==
    LET pageSize == IF TruthyParam(pageSizeParam)
                    THEN parseInt(pageSizeParam.text) ELSE Num(10)
        floored == IF isNaN(pageSize) \/ LessThan(pageSize, 1)
                   THEN Num(10) ELSE pageSize
    IN  IF GreaterThan(floored, 100) THEN 100 ELSE floored.n

\* parseQueryParam returning any non-empty value, allowed or not.
parseQueryParam_NoAllowList(value, defaultValue, allowedValues) ==
    IF Truthy(value) THEN value ELSE defaultValue

\* parseQueryParam; allowedValues is << >> when the argument is not given
\* and <<set>> when it is.
parseQueryParam(value, defaultValue, allowedValues) ==
    IF Truthy(value)
       /\ (Len(allowedValues) = 0 \/ value \in allowedValues[1])
    THEN value
    ELSE defaultValue

\* String.prototype.toUpperCase on the sort orders above.
toUpperCase(str) ==
    CASE str = "asc" -> "ASC"
      [] str = "desc" -> "DESC"
      [] str = "ASC" -> "ASC"
      [] str = "desc; drop table ip_pings" -> "DESC; DROP TABLE IP_PINGS"
      [] OTHER -> str

\* validSortByColumns[sortBy]: a property the object does not have reads
\* as undefined.
validSortByColumns ==
    [first_seen |-> "first_seen", total_pings |-> "total_pings"]
Lookup(object, key) ==
    IF key \in DOMAIN object THEN object[key] ELSE "undefined"

\* The identifiers of the event log, and the event rows of one of them.
Identifiers(rows) == {rows[i].ip_hmac : i \in DOMAIN rows}
TimestampsOf(rows, hmac) ==
    {rows[i].ping_timestamp : i \in {j \in DOMAIN rows : rows[j].ip_hmac = hmac}}
CountOf(rows, hmac) ==
    Cardinality({i \in DOMAIN rows : rows[i].ip_hmac = hmac})
Minimum(S) == CHOOSE x \in S : \A y \in S : x <= y
Maximum(S) == CHOOSE x \in S : \A y \in S : x >= y

\* SELECT ip_hmac, MIN(ping_timestamp) as first_seen, MAX(ping_timestamp)
\* as last_seen, COUNT(ping_timestamp) as total_pings FROM ip_pings
\* GROUP BY ip_hmac: one row per identifier of the event log.
GroupByIpHmac(rows) ==
    {[ip_hmac |-> h,
      first_seen |-> Minimum(TimestampsOf(rows, h)),
      last_seen |-> Maximum(TimestampsOf(rows, h)),
      total_pings |-> CountOf(rows, h)] : h \in Identifiers(rows)}

\* ORDER BY orderByColumn direction: the orders of the groups the clause
\* admits; rows with equal keys come in any order.
OrderBy(groups, orderByColumn, direction) ==
    LET n == Cardinality(groups)
        key(g) == IF orderByColumn = "total_pings" THEN g.total_pings
                  ELSE g.first_seen
        InOrder(x, y) == IF direction = "DESC" THEN key(x) >= key(y)
                         ELSE key(x) <= key(y)
    IN  {f \in [1..n -> groups] :
            /\ \A i, j \in 1..n : i # j => f[i] # f[j]
            /\ \A i, j \in 1..n : i < j => InOrder(f[i], f[j])}

\* LIMIT limit OFFSET offset.
LimitOffset(ordered, limit, offset) ==
    SubSeq(ordered, offset + 1,
           IF offset + limit < Len(ordered) THEN offset + limit
           ELSE Len(ordered))

\* The count query over the registry instead of the event log.
SelectTotalItems_Registry(registry, rows) == Len(registry)

\* SELECT COUNT(*) as totalItems FROM (SELECT 1 FROM ip_pings GROUP BY
\* ip_hmac).
SelectTotalItems(registry, rows) == Cardinality(GroupByIpHmac(rows))

\* Math.ceil without the rounding up.
MathCeilOfQuotient_Floor(num, den) == num \div den

\* Math.ceil(num / den) for num >= 0 and den > 0.
MathCeilOfQuotient(num, den) ==
    IF num % den = 0 THEN num \div den ELSE (num \div den) + 1

\* GET /api/pings/unique-activity: the parameters are resolved, the data
\* query and the count query are run, and the page and its pagination
\* are returned; the responses the request may get, one for each order
\* the data query may give its rows in.
UniqueActivityResponses(pageParam, pageSizeParam, sortByParam, sortOrderParam) ==
    LET page == ResolvePage(pageParam)
        pageSize == ResolvePageSize(pageSizeParam)
        sortBy == parseQueryParam(sortByParam, "first_seen",
                                  <<{"first_seen", "total_pings"}>>)
        sortOrder == parseQueryParam(sortOrderParam, "desc",
                                     <<{"asc", "desc"}>>)
        offset == (page - 1) * pageSize
        orderByColumn == Lookup(validSortByColumns, sortBy)
        totalItems == SelectTotalItems(ip_registry, ip_pings)
        totalPages == MathCeilOfQuotient(totalItems, pageSize)
    IN  {[stage |-> "resolved",
          pageParam |-> pageParam,
          pageSizeParam |-> pageSizeParam,
          sortByParam |-> sortByParam,
          sortOrderParam |-> sortOrderParam,
          page |-> page,
          pageSize |-> pageSize,
          sortBy |-> sortBy,
          sortOrder |-> sortOrder,
          offset |-> offset,
          orderBy |-> <<orderByColumn, toUpperCase(sortOrder)>>,
          data |-> LimitOffset(ordered, pageSize, offset),
          pagination |-> [totalItems |-> totalItems,
                          currentPage |-> page,
                          pageSize |-> pageSize,
                          totalPages |-> totalPages]] :
           ordered \in OrderBy(GroupByIpHmac(ip_pings), orderByColumn,
                               toUpperCase(sortOrder))}

\* One unique-activity request.
UniqueActivity(pageParam, pageSizeParam, sortByParam, sortOrderParam) ==
    /\ query.stage = "none"
    /\ \E resp \in UniqueActivityResponses(pageParam, pageSizeParam,
                                           sortByParam, sortOrderParam) :
          query' = resp
    /\ UNCHANGED <<now, ticks, dbvars, reqvars>>

\* One unique-activity request, with any parameters.
QueryNext ==
    /\ query.stage = "none"
    /\ \E pq \in NumericParamPairs, sb \in SortByInputs, so \in SortOrderInputs :
          UniqueActivity(pq[1], pq[2], sb, so)

QuerySpec == Init /\ [][QueryNext]_vars

\* -------------------------------------------------------------- dates
\* A JS Date is an instant: the day number since 1970-01-01 and the
\* millisecond of that day.  The runtime's local time zone is UTC, so the
\* local-time setters and getters below work on UTC fields.
msPerSecond == 1000
msPerMinute == 60 * msPerSecond
msPerHour == 60 * msPerMinute
msPerDay == 24 * msPerHour

\* MakeDate: the instant of a day number and a millisecond offset that may
\* lie outside of the day.
MakeDate(day, ms) == [day |-> day + (ms \div msPerDay), ms |-> ms % msPerDay]

\* new Date(ms) for the milliseconds of the clock and of stored timestamps.
DateOf(ms) == MakeDate(0, ms)

\* The proleptic Gregorian calendar: day number of a civil date, and the
\* civil date of a day number; month is 1..12.
DaysFromCivil(year, month, date) ==
    LET y == IF month <= 2 THEN year - 1 ELSE year
        era == y \div 400
        yoe == y - era * 400
        mp == IF month > 2 THEN month - 3 ELSE month + 9
        doy == ((153 * mp + 2) \div 5) + date - 1
        doe == yoe * 365 + (yoe \div 4) - (yoe \div 100) + doy
    IN  era * 146097 + doe - 719468

CivilFromDays(day) ==
    LET z == day + 719468
        era == z \div 146097
        doe == z - era * 146097
        yoe == (doe - (doe \div 1460) + (doe \div 36524) - (doe \div 146096))
                   \div 365
        doy == doe - (365 * yoe + (yoe \div 4) - (yoe \div 100))
        mp == (5 * doy + 2) \div 153
        month == IF mp < 10 THEN mp + 3 ELSE mp - 9
    IN  [year |-> yoe + era * 400 + (IF month <= 2 THEN 1 ELSE 0),
         month |-> month,
         date |-> doy - ((153 * mp + 2) \div 5) + 1]

\* Date.prototype.getHours, getDate, getMonth (0..11).
getHours(d) == d.ms \div msPerHour
getDate(d) == CivilFromDays(d.day).date
getMonth(d) == CivilFromDays(d.day).month - 1

\* setHours(hours): the other time fields are kept; hours outside of
\* 0..23 carry into the day.
setHours(d, hours) == MakeDate(d.day, hours * msPerHour + (d.ms % msPerHour))

\* setHours(0, 0, 0, 0).
setHoursZero(d) == MakeDate(d.day, 0)

\* setDate(date): the day of the month; values outside of the month carry
\* into the neighbouring months.
setDate(d, date) ==
    LET c == CivilFromDays(d.day)
    IN  MakeDate(DaysFromCivil(c.year, c.month, 1) + date - 1, d.ms)

\* setMonth(month): the month index; values outside of 0..11 carry into
\* the year, and a day the month does not have carries into the next one.
setMonth(d, month) ==
    LET c == CivilFromDays(d.day)
        year == c.year + (month \div 12)
    IN  MakeDate(DaysFromCivil(year, (month % 12) + 1, 1) + c.date - 1, d.ms)

\* toISOString: YYYY-MM-DDTHH:mm:ss.sssZ, as the tuple of its fields; the
\* order of the strings is the lexicographic order of the tuples.
toISOString(d) ==
    LET c == CivilFromDays(d.day)
    IN  <<c.year, c.month, c.date,
          d.ms \div msPerHour,
          (d.ms % msPerHour) \div msPerMinute,
          (d.ms % msPerMinute) \div msPerSecond,
          d.ms % msPerSecond>>

RECURSIVE IsoLessOrEqual(_, _)
IsoLessOrEqual(a, b) ==
    IF a = << >> THEN TRUE
    ELSE IF a[1] # b[1] THEN a[1] < b[1]
    ELSE IsoLessOrEqual(Tail(a), Tail(b))

\* getDateRange without the snap to the beginning of the day.
getDateRange_NoSnap(period, currentDate) ==
    LET end == currentDate
        start ==
            CASE period = "24h" -> setHours(currentDate, getHours(currentDate) - 24)
              [] period = "7d" -> setDate(currentDate, getDate(currentDate) - 7)
              [] period = "30d" -> setDate(currentDate, getDate(currentDate) - 30)
              [] period = "6month" -> setMonth(currentDate, getMonth(currentDate) - 6)
              [] OTHER -> currentDate
    IN  IF period \in {"24h", "7d", "30d", "6month"}
        THEN <<[startISO |-> toISOString(start), endISO |-> toISOString(end)]>>
        ELSE << >>

\* getDateRange(period, currentDate): << >> is the null of "all" and of an
\* unrecognised period, <<range>> a range.
getDateRange(period, currentDate) ==
    LET end == currentDate
        start ==
            CASE period = "24h" ->
                    setHours(currentDate, getHours(currentDate) - 24)
              [] period = "7d" ->
                    setHoursZero(setDate(currentDate, getDate(currentDate) - 7))
              [] period = "30d" ->
                    setHoursZero(setDate(currentDate, getDate(currentDate) - 30))
              [] period = "6month" ->
                    setHoursZero(setMonth(currentDate, getMonth(currentDate) - 6))
              [] OTHER -> currentDate
    IN  IF period \in {"24h", "7d", "30d", "6month"}
        THEN <<[startISO |-> toISOString(start), endISO |-> toISOString(end)]>>
        ELSE << >>

\* The explicit instants getDateRange is called with: every day of a span
\* that begins shortly before 2024, at the first and last millisecond of
\* the day and at two instants between.
MaxSpanDays == 370
FirstDay == DaysFromCivil(2023, 12, 25)
DayOffsets ==
    {0, 1, 13 * msPerHour + 45 * msPerMinute + 10 * msPerSecond + 123,
     msPerDay - 1}
Instants ==
    {[day |-> FirstDay + k, ms |-> ms] : k \in 0..MaxSpanDays, ms \in DayOffsets}
PeriodInputs == {"24h", "7d", "30d", "6month", "all", "1y", ""}

\* One call getDateRange(period, currentDate).
GetDateRange(period, currentDate) ==
    /\ query.stage = "none"
    /\ query' = [stage |-> "range",
                 period |-> period,
                 currentDate |-> currentDate,
                 dateRange |-> getDateRange(period, currentDate)]
    /\ UNCHANGED <<now, ticks, dbvars, reqvars>>

DateNext ==
    /\ query.stage = "none"
    /\ \E period \in PeriodInputs, currentDate \in Instants :
          GetDateRange(period, currentDate)

DateSpec == Init /\ [][DateNext]_vars

\* ----------------------------------------------------- aggregate reads
\* The event logs the aggregate queries are asked over: at most MaxEvents
\* events of three addresses, recorded at the instants of EventTimes (two
\* on each of two days), in the order of their timestamps; addresses are
\* named in the order they were first recorded.
MaxEvents == 4
AggAddrSeq == AddrSeq \o <<"192.0.2.33">>
EventTimes == {0, msPerDay \div 2, msPerDay, msPerDay + (msPerDay \div 2)}
AggNow == 2 * msPerDay - msPerHour
AddrsUsed(f, n) == {f[i].a : i \in 1..n}
EventLogs ==
    UNION {{f \in [1..n -> [a : 1..Len(AggAddrSeq), t : EventTimes]] :
               /\ \A i \in 1..n : \A j \in 1..n : i < j => f[i].t <= f[j].t
               /\ \A i \in 1..n :
                     f[i].a = 1 \/ (f[i].a - 1) \in AddrsUsed(f, i - 1)}
           : n \in 0..MaxEvents}

\* The tables of an event log whose first k addresses are registered.
RegistryOf(k) ==
    [i \in 1..k |-> [ip_hmac |-> generateDoubleHash(AggAddrSeq[i],
                                                    env.IP_HASH_PEPPER)]]
PingsOf(f) ==
    [i \in 1..Len(f) |->
        [ip_hmac |-> generateDoubleHash(AggAddrSeq[f[i].a], env.IP_HASH_PEPPER),
         ping_timestamp |-> f[i].t,
         by |-> 0]]

\* The tables after earlier requests: every identifier of the event log
\* is registered, and /makefile may have registered further ones.
AggInit ==
    /\ \E f \in EventLogs :
          \E k \in Cardinality(AddrsUsed(f, Len(f)))..Len(AggAddrSeq) :
              /\ ip_pings = PingsOf(f)
              /\ ip_registry = RegistryOf(k)
    /\ now = AggNow
    /\ ticks = 0
    /\ pc = [r \in Reqs |-> "idle"]
    /\ path = [r \in Reqs |-> ""]
    /\ ip = [r \in Reqs |-> null]
    /\ ipHmac = [r \in Reqs |-> << >>]
    /\ lastPingResult = [r \in Reqs |-> << >>]
    /\ currentTime = [r \in Reqs |-> 0]
    /\ shouldRecordPing = [r \in Reqs |-> TRUE]
    /\ response = [r \in Reqs |-> NoResponse]
    /\ query = NoQuery

\* SELECT COUNT(*) as totalPings FROM ip_pings.
SelectTotalPings(rows) == Len(rows)

\* SELECT COUNT(DISTINCT ip_hmac) as totalUniqueUsers FROM ip_pings.
SelectTotalUniqueUsers(rows) == Cardinality(Identifiers(rows))

\* The most active user read as the first group, not the largest.
SelectMostActiveUser_AnyGroup(rows) ==
    {<<[ip_hmac |-> h, ping_count |-> CountOf(rows, h)]>> :
        h \in Identifiers(rows)}
    \cup (IF rows = << >> THEN {<< >>} ELSE {})

\* SELECT ip_hmac, COUNT(*) as ping_count FROM ip_pings GROUP BY ip_hmac
\* ORDER BY ping_count DESC LIMIT 1: the results first() may give, << >>
\* for null; groups of equal count come in any order.
SelectMostActiveUser(rows) ==
    {<<[ip_hmac |-> h, ping_count |-> CountOf(rows, h)]>> :
        h \in {g \in Identifiers(rows) :
                  \A o \in Identifiers(rows) : CountOf(rows, g) >= CountOf(rows, o)}}
    \cup (IF rows = << >> THEN {<< >>} ELSE {})

\* GET /api/stats/summary: no request writes between the three reads here.
Summary ==
    /\ query.stage = "none"
    /\ \E mostActiveUserResult \in SelectMostActiveUser(ip_pings) :
          query' = [stage |-> "summary",
                    totalPings |-> SelectTotalPings(ip_pings),
                    totalUniqueUsers |-> SelectTotalUniqueUsers(ip_pings),
                    mostActiveUser |->
                        IF mostActiveUserResult # << >>
                        THEN <<[ipHmac |-> mostActiveUserResult[1].ip_hmac,
                                pingCount |-> mostActiveUserResult[1].ping_count]>>
                        ELSE << >>]
    /\ UNCHANGED <<now, ticks, dbvars, reqvars>>

\* strftime('%Y-%m-%d', ping_timestamp), as the tuple of its fields.
strftimeDay(timestamp) ==
    LET c == CivilFromDays(DateOf(timestamp).day)
    IN  <<c.year, c.month, c.date>>

\* WHERE ping_timestamp >= ? AND ping_timestamp <= ?, bound to the range;
\* without a range every row is selected.
WhereInRange(rows, dateRange) ==
    IF dateRange = << >> THEN DOMAIN rows
    ELSE {i \in DOMAIN rows :
            LET at == toISOString(DateOf(rows[i].ping_timestamp))
            IN  /\ IsoLessOrEqual(dateRange[1].startISO, at)
                /\ IsoLessOrEqual(at, dateRange[1].endISO)}

\* ORDER BY day ASC over the days of the groups.
RECURSIVE OrderByDayAsc(_)
OrderByDayAsc(days) ==
    IF days = {} THEN << >>
    ELSE LET first == CHOOSE d \in days :
                          \A e \in days : IsoLessOrEqual(d, e)
         IN  <<first>> \o OrderByDayAsc(days \ {first})

\* count as COUNT(*) whatever the count type.
SelectCount_Total(rows, selected, countType) == Cardinality(selected)

\* count: COUNT(DISTINCT ip_hmac) for "unique", COUNT(*) otherwise.
SelectCount(rows, selected, countType) ==
    IF countType = "unique"
    THEN Cardinality({rows[i].ip_hmac : i \in selected})
    ELSE Cardinality(selected)

\* The grouped query: the selected rows grouped by day, a count for each
\* group, the groups in ascending order of day.
SelectGroupedByDay(rows, dateRange, countType) ==
    LET selected == WhereInRange(rows, dateRange)
        dayOf(i) == strftimeDay(rows[i].ping_timestamp)
        days == OrderByDayAsc({dayOf(i) : i \in selected})
    IN  [k \in DOMAIN days |->
            [day |-> days[k],
             count |-> SelectCount(rows, {i \in selected : dayOf(i) = days[k]},
                                   countType)]]

\* The period resolved with "all" as its default.
ResolvePeriod_DefaultAll(periodParam) ==
    parseQueryParam(periodParam, "all",
                    <<{"24h", "7d", "30d", "6month", "all"}>>)

\* parseQueryParam(periodParam, "30d", [...]).
ResolvePeriod(periodParam) ==
    parseQueryParam(periodParam, "30d",
                    <<{"24h", "7d", "30d", "6month", "all"}>>)

\* GET /api/pings/grouped.
Grouped(periodParam, countTypeParam) ==
    /\ query.stage = "none"
    /\ LET parsedPeriod == ResolvePeriod(periodParam)
           parsedCountType == parseQueryParam(countTypeParam, "unique",
                                              <<{"unique", "total"}>>)
           dateRange == getDateRange(parsedPeriod, DateOf(now))
       IN  query' = [stage |-> "grouped",
                     periodParam |-> periodParam,
                     countTypeParam |-> countTypeParam,
                     parsedPeriod |-> parsedPeriod,
                     parsedCountType |-> parsedCountType,
                     dateRange |-> dateRange,
                     results |-> SelectGroupedByDay(ip_pings, dateRange,
                                                    parsedCountType)]
    /\ UNCHANGED <<now, ticks, dbvars, reqvars>>

\* The parameters of the aggregate requests.
PeriodParams == PeriodInputs \cup {null}
CountTypeParams == {null, "", "unique", "total", "distinct"}
PageParams == {AbsentParam, Param(<<"2">>), Param(<<"3">>)}
PageSizeParams == {AbsentParam, Param(<<"1">>), Param(<<"2">>)}

\* One aggregate request over the tables.
AggNext ==
    /\ query.stage = "none"
    /\ \/ Summary
       \/ \E periodParam \in PeriodParams, countTypeParam \in CountTypeParams :
             Grouped(periodParam, countTypeParam)
       \/ \E pageParam \in PageParams, pageSizeParam \in PageSizeParams,
             sortByParam \in {null, "total_pings"},
             sortOrderParam \in {null, "asc"} :
             UniqueActivity(pageParam, pageSizeParam, sortByParam,
                            sortOrderParam)

AggSpec == AggInit /\ [][AggNext]_vars

\* ----------------------------------------------------- storage failures
\* A D1 statement that fails rejects its promise.  The /api/ping and
\* /api/stats/summary cases await their statements outside of any try
\* block, so the rejection leaves fetch as an uncaught exception and the
\* handler builds no Response; the grouped and unique-activity cases
\* await theirs inside try and answer from the catch block.
UncaughtException ==
    [status |-> 0, success |-> FALSE, message |-> "uncaught exception"]
ErrorQueryingDatabase == [status |-> 500, body |-> "Error querying database"]

\* /api/ping: the statement of upsertIp fails; nothing is written.
PingUpsertFails(r, a) ==
    /\ Arrives(r, a)
    /\ Truthy(a)
    /\ path' = [path EXCEPT ![r] = "/api/ping"]
    /\ ip' = [ip EXCEPT ![r] = a]
    /\ pc' = [pc EXCEPT ![r] = "done"]
    /\ response' = [response EXCEPT ![r] = UncaughtException]
    /\ UNCHANGED <<now, ticks, dbvars, ipHmac, lastPingResult, currentTime,
                   shouldRecordPing, query>>

\* /api/ping: the read of the last ping fails.
PingReadLastFails(r) ==
    /\ pc[r] = "read"
    /\ Returns(r, UncaughtException)
    /\ UNCHANGED <<now, ticks, dbvars, path, ip, ipHmac, shouldRecordPing,
                   query>>

\* /api/ping: the insert of the event fails; nothing is written.
PingInsertFails(r) ==
    /\ pc[r] = "insert"
    /\ Returns(r, UncaughtException)
    /\ UNCHANGED <<now, ticks, dbvars, path, ip, ipHmac, shouldRecordPing,
                   query>>

\* /api/stats/summary: one of the three statements fails and Promise.all
\* rejects.
SummaryFails ==
    /\ query.stage = "none"
    /\ query' = [stage |-> "failed", path |-> "/api/stats/summary",
                 caught |-> FALSE, response |-> << >>]
    /\ UNCHANGED <<now, ticks, dbvars, reqvars>>

\* /api/pings/grouped: the statement fails inside try.
GroupedFails ==
    /\ query.stage = "none"
    /\ query' = [stage |-> "failed", path |-> "/api/pings/grouped",
                 caught |-> TRUE, response |-> <<ErrorQueryingDatabase>>]
    /\ UNCHANGED <<now, ticks, dbvars, reqvars>>

\* /api/pings/unique-activity: the data or the count statement fails
\* inside try.
UniqueActivityFails ==
    /\ query.stage = "none"
    /\ query' = [stage |-> "failed", path |-> "/api/pings/unique-activity",
                 caught |-> TRUE, response |-> <<ErrorQueryingDatabase>>]
    /\ UNCHANGED <<now, ticks, dbvars, reqvars>>

\* Ping requests and one aggregate request, any statement of which may
\* fail; the clock stands still.
FailNext ==
    \/ \E r \in Reqs, a \in Headers : PingStart(r, a) \/ PingUpsertFails(r, a)
    \/ \E r \in Reqs :
          \/ PingReadLast(r)
          \/ PingReadLastFails(r)
          \/ PingDecide(r)
          \/ PingInsert(r)
          \/ PingInsertFails(r)
    \/ SummaryFails
    \/ GroupedFails
    \/ UniqueActivityFails

FailSpec == Init /\ [][FailNext]_vars

\* -------------------------------------------------------------- hasher
\* The addresses and peppers the hasher is applied to, two calls at a time.
HashAddrs == Addrs \cup {"192.0.2.33", "2001:db8::1"}
Peppers == {env.IP_HASH_PEPPER, "pepper-2", "198.51.100.7"}

\* Two calls generateDoubleHash(ip, secret).
DoubleHashTwice(ip1, secret1, ip2, secret2) ==
    /\ query.stage = "none"
    /\ query' = [stage |-> "hashed",
                 first |-> [ip |-> ip1, secret |-> secret1,
                            id |-> generateDoubleHash(ip1, secret1)],
                 second |-> [ip |-> ip2, secret |-> secret2,
                             id |-> generateDoubleHash(ip2, secret2)]]
    /\ UNCHANGED <<now, ticks, dbvars, reqvars>>

HashNext ==
    /\ query.stage = "none"
    /\ \E ip1 \in HashAddrs, secret1 \in Peppers,
          ip2 \in HashAddrs, secret2 \in Peppers :
          DoubleHashTwice(ip1, secret1, ip2, secret2)

HashSpec == Init /\ [][HashNext]_vars

\* ---------------------------------------------------- earlier revisions
\* index.ts also holds two earlier revisions of the worker.  Their
\* ip_registry rows carry ip_hash, the SHA-256 digest of the address, and
\* ip_hmac, which is NULL (<< >>) in a row the oldest revision wrote.
NULL == << >>

\* generateDoubleHash of the revision at lines 736-980: both digests.
generateDoubleHash_v3(ipaddr, secret) ==
    LET sha == generate256Hash(ipaddr)
    IN  [sha |-> sha, hmac |-> generateHMAC256(sha, secret)]

\* upsertIp of the revision at lines 736-980:
\* INSERT INTO ip_registry (ip_hash, ip_hmac) VALUES (?, ?)
\*   ON CONFLICT(ip_hash) DO UPDATE SET ip_hmac = EXCLUDED.ip_hmac
upsertIp_v3(rows, ipaddr) ==
    LET d == generateDoubleHash_v3(ipaddr, env.IP_HASH_PEPPER)
    IN  [sha |-> d.sha,
         hmac |-> d.hmac,
         registry |->
            IF \E i \in DOMAIN rows : rows[i].ip_hash = d.sha
            THEN [i \in DOMAIN rows |->
                    IF rows[i].ip_hash = d.sha
                    THEN [rows[i] EXCEPT !.ip_hmac = d.hmac]
                    ELSE rows[i]]
            ELSE Append(rows, [ip_hash |-> d.sha, ip_hmac |-> d.hmac])]

\* INSERT INTO ip_registry (ip_hash) VALUES (?) ON CONFLICT (ip_hash) DO
\* NOTHING, of the revision at lines 523-724.
InsertOrIgnore_v2(rows, ipHash) ==
    IF \E i \in DOMAIN rows : rows[i].ip_hash = ipHash THEN rows
    ELSE Append(rows, [ip_hash |-> ipHash, ip_hmac |-> NULL])

\* GET /makefile of the revision at lines 736-980.
Makefile_v3(r, a) ==
    /\ Arrives(r, a)
    /\ path' = [path EXCEPT ![r] = "/makefile"]
    /\ ip' = [ip EXCEPT ![r] = a]
    /\ IF Truthy(a)
       THEN ip_registry' = upsertIp_v3(ip_registry, a).registry
       ELSE UNCHANGED ip_registry
    /\ response' = [response EXCEPT ![r] = MakefileProxied]
    /\ pc' = [pc EXCEPT ![r] = "done"]
    /\ UNCHANGED <<now, ticks, ip_pings, ipHmac, lastPingResult, currentTime,
                   shouldRecordPing, query>>

\* GET /makefile of the revision at lines 523-724.
Makefile_v2(r, a) ==
    /\ Arrives(r, a)
    /\ path' = [path EXCEPT ![r] = "/makefile"]
    /\ ip' = [ip EXCEPT ![r] = a]
    /\ IF Truthy(a)
       THEN ip_registry' = InsertOrIgnore_v2(ip_registry, generate256Hash(a))
       ELSE UNCHANGED ip_registry
    /\ response' = [response EXCEPT ![r] = MakefileProxied]
    /\ pc' = [pc EXCEPT ![r] = "done"]
    /\ UNCHANGED <<now, ticks, ip_pings, ipHmac, lastPingResult, currentTime,
                   shouldRecordPing, query>>

\* The throttle of the revision at lines 523-724: hoursDifference >= 1.
ShouldRecord_v2(last, current) ==
    IF Len(last) > 0
    THEN QuotientAtLeastOne(current - last[1].ping_timestamp,
                            durationToMs(1, "hours"))
    ELSE TRUE

\* The throttle of the revision at lines 736-980: minutesDifference >= 1.
ShouldRecord_v3(last, current) ==
    IF Len(last) > 0
    THEN QuotientAtLeastOne(current - last[1].ping_timestamp,
                            durationToMs(30, "minutes"))
    ELSE TRUE

PingThrottled_v3 ==
    [status |-> 200, success |-> FALSE,
     message |-> "Ping not recorded - less than 30 minutes since last ping"]

PingThrottled_v2 ==
    [status |-> 200, success |-> FALSE,
     message |-> "Ping not recorded - less than 1 hour since last ping"]

\* POST /api/ping of the revision at lines 523-724, its statements run
\* with no other request between them.
Ping_v2(r, a) ==
    /\ Arrives(r, a)
    /\ path' = [path EXCEPT ![r] = "/api/ping"]
    /\ ip' = [ip EXCEPT ![r] = a]
    /\ pc' = [pc EXCEPT ![r] = "done"]
    /\ IF Truthy(a)
       THEN LET ipHash == generate256Hash(a)
                S == {i \in DOMAIN ip_pings : ip_pings[i].ip_hash = ipHash}
                lastPingResult_v2 ==
                    IF S = {} THEN << >>
                    ELSE <<[ping_timestamp |->
                               Maximum({ip_pings[i].ping_timestamp : i \in S})]>>
                record == ShouldRecord_v2(lastPingResult_v2, now)
            IN  /\ ip_registry' = InsertOrIgnore_v2(ip_registry, ipHash)
                /\ shouldRecordPing' = [shouldRecordPing EXCEPT ![r] = record]
                /\ IF record
                   THEN /\ ip_pings' =
                              Append(ip_pings,
                                     [ip_hash |-> ipHash,
                                      ping_timestamp |-> CURRENT_TIMESTAMP,
                                      by |-> r])
                        /\ response' = [response EXCEPT ![r] = PingRecorded]
                   ELSE /\ response' = [response EXCEPT ![r] = PingThrottled_v2]
                        /\ UNCHANGED ip_pings
       ELSE /\ response' = [response EXCEPT ![r] = PingNoAddress]
            /\ UNCHANGED <<dbvars, shouldRecordPing>>
    /\ UNCHANGED <<now, ticks, ipHmac, lastPingResult, currentTime, query>>

\* Requests served by the earlier revisions.
RevNext ==
    \/ Tick
    \/ \E r \in Reqs, a \in Headers :
          \/ Makefile_v2(r, a)
          \/ Makefile_v3(r, a)
          \/ Ping_v2(r, a)

RevSpec == Init /\ [][RevNext]_vars

\* ------------------------------------------- reads among ping requests
\* GET /api/pings: SELECT ip_hmac, ping_timestamp FROM ip_pings ORDER BY
\* ping_timestamp DESC; events of one timestamp come in any order.
ListPings ==
    /\ query.stage = "none"
    /\ \E results \in {f \in [DOMAIN ip_pings -> DOMAIN ip_pings] :
                          /\ \A i, j \in DOMAIN ip_pings : i # j => f[i] # f[j]
                          /\ \A i, j \in DOMAIN ip_pings :
                                i < j => ip_pings[f[i]].ping_timestamp
                                            >= ip_pings[f[j]].ping_timestamp} :
          query' = [stage |-> "pings",
                    results |-> [k \in DOMAIN ip_pings |->
                                    [ip_hmac |-> ip_pings[results[k]].ip_hmac,
                                     ping_timestamp |->
                                         ip_pings[results[k]].ping_timestamp]]]
    /\ UNCHANGED <<now, ticks, dbvars, reqvars>>

\* GET /api/stats/summary among other requests: Promise.all issues the
\* three statements and each is run on its own, in any order; a result
\* that has not come yet is << >>, one that has is <<result>>.
SummaryReading ==
    [stage |-> "reading", totalPingsResult |-> << >>,
     totalUniqueUsersResult |-> << >>, mostActiveUserResult |-> << >>]
SummaryPending == IF query.stage = "none" THEN SummaryReading ELSE query

\* The response, once the three results are there.
SummaryJoin(q) ==
    IF \/ q.totalPingsResult = << >>
       \/ q.totalUniqueUsersResult = << >>
       \/ q.mostActiveUserResult = << >>
    THEN q
    ELSE [stage |-> "summary",
          totalPings |-> q.totalPingsResult[1],
          totalUniqueUsers |-> q.totalUniqueUsersResult[1],
          mostActiveUser |->
              IF q.mostActiveUserResult[1] # << >>
              THEN <<[ipHmac |-> q.mostActiveUserResult[1][1].ip_hmac,
                      pingCount |-> q.mostActiveUserResult[1][1].ping_count]>>
              ELSE << >>]

SummaryReadTotalPings ==
    /\ query.stage \in {"none", "reading"}
    /\ SummaryPending.totalPingsResult = << >>
    /\ query' = SummaryJoin([SummaryPending EXCEPT
                                !.totalPingsResult = <<SelectTotalPings(ip_pings)>>])
    /\ UNCHANGED <<now, ticks, dbvars, reqvars>>

SummaryReadTotalUniqueUsers ==
    /\ query.stage \in {"none", "reading"}
    /\ SummaryPending.totalUniqueUsersResult = << >>
    /\ query' = SummaryJoin([SummaryPending EXCEPT
                                !.totalUniqueUsersResult =
                                    <<SelectTotalUniqueUsers(ip_pings)>>])
    /\ UNCHANGED <<now, ticks, dbvars, reqvars>>

SummaryReadMostActiveUser ==
    /\ query.stage \in {"none", "reading"}
    /\ SummaryPending.mostActiveUserResult = << >>
    /\ \E result \in SelectMostActiveUser(ip_pings) :
          query' = SummaryJoin([SummaryPending EXCEPT
                                   !.mostActiveUserResult = <<result>>])
    /\ UNCHANGED <<now, ticks, dbvars, reqvars>>

\* Ping and makefile requests, interleaved in any way, and one read
\* request among them; the clock stands still.
MixNext ==
    \/ \E r \in Reqs, a \in Headers : Makefile(r, a) \/ PingStart(r, a)
    \/ \E r \in Reqs : PingReadLast(r) \/ PingDecide(r) \/ PingInsert(r)
    \/ SummaryReadTotalPings
    \/ SummaryReadTotalUniqueUsers
    \/ SummaryReadMostActiveUser
    \/ \E periodParam \in {null, "all"} : Grouped(periodParam, "total")
    \/ \E sortByParam \in {null, "total_pings"} :
          UniqueActivity(AbsentParam, Param(<<"1">>), sortByParam, null)
    \/ ListPings

MixSpec == Init /\ [][MixNext]_vars

\* ------------------------------------------- the throttle, by revision
\* The last timestamps and the times since them the three throttles are
\* asked about.
MaxLastSteps == 11
LastTimes == {k * 17 * msPerMinute : k \in 0..MaxLastSteps}
ElapsedTimes ==
    {0, 1, 30 * msPerMinute - 1, 30 * msPerMinute, 30 * msPerMinute + 1,
     45 * msPerMinute, msPerHour - 1, msPerHour, msPerHour + 1, 2 * msPerHour}

\* The decision of each revision's ping handler for one last ping and one
\* current time, with the message it rejects with.
Decide(last, current) ==
    /\ query.stage = "none"
    /\ query' = [stage |-> "decided",
                 last |-> last,
                 current |-> current,
                 record |-> <<ShouldRecord(last, current),
                              ShouldRecord_v2(last, current),
                              ShouldRecord_v3(last, current)>>,
                 rejection |-> <<PingThrottled.message,
                                 PingThrottled_v2.message,
                                 PingThrottled_v3.message>>]
    /\ UNCHANGED <<now, ticks, dbvars, reqvars>>

ThrottleNext ==
    /\ query.stage = "none"
    /\ \/ \E t \in LastTimes, e \in ElapsedTimes :
             Decide(<<[ping_timestamp |-> t]>>, t + e)
       \/ \E t \in LastTimes : Decide(<< >>, t)

ThrottleSpec == Init /\ [][ThrottleNext]_vars

\* ------------------------------------------------------ a walk of pages
\* A client asks for page 1, 2, ... of the unique-activity query, one
\* request after the other with the same pageSize, sortBy and sortOrder,
\* up to the page after the last one that the first response announced;
\* the event log does not change meanwhile.
PageText(n) == Param(<<CHOOSE c \in DOMAIN DigitValue : DigitValue[c] = n>>)

WalkPage(pageSizeParam, sortByParam, sortOrderParam) ==
    /\ query.stage \in {"none", "walking"}
    /\ query.stage = "walking" =>
          /\ pageSizeParam = query.pageSizeParam
          /\ sortByParam = query.sortByParam
          /\ sortOrderParam = query.sortOrderParam
    /\ LET n == IF query.stage = "none" THEN 1 ELSE Len(query.pages) + 1
       IN  \E resp \in UniqueActivityResponses(PageText(n), pageSizeParam,
                                               sortByParam, sortOrderParam) :
              LET totalPages == IF query.stage = "none"
                                THEN resp.pagination.totalPages
                                ELSE query.totalPages
              IN  query' = [stage |-> IF n > totalPages THEN "walked"
                                      ELSE "walking",
                            pageSizeParam |-> pageSizeParam,
                            sortByParam |-> sortByParam,
                            sortOrderParam |-> sortOrderParam,
                            totalPages |-> totalPages,
                            pages |-> IF query.stage = "none" THEN <<resp.data>>
                                      ELSE Append(query.pages, resp.data)]
    /\ UNCHANGED <<now, ticks, dbvars, reqvars>>

WalkNext ==
    /\ query.stage \in {"none", "walking"}
    /\ \E pageSizeParam \in {Param(<<"1">>), Param(<<"2">>)},
          sortByParam \in {null, "total_pings"},
          sortOrderParam \in {null, "asc"} :
          WalkPage(pageSizeParam, sortByParam, sortOrderParam)

WalkSpec == AggInit /\ [][WalkNext]_vars

\* ================================================================ claims
\* The minimum interval between two recorded pings of one identifier:
\* thirty minutes, in milliseconds.
MIN_INTERVAL == 1800000

\* The identifier under which the caller at address a is stored.
IdOf(a) == <<"HMAC-SHA-256", env.IP_HASH_PEPPER, <<"SHA-256", a>>>>

\* The stored events of identifier h, as positions in the event log.
EventsOf(h) == {i \in DOMAIN ip_pings : ip_pings[i].ip_hmac = h}

\* Events i and j belong to one identifier and no event of that identifier
\* was stored between them.
Consecutive(i, j) ==
    /\ i < j
    /\ ip_pings[i].ip_hmac = ip_pings[j].ip_hmac
    /\ \A k \in DOMAIN ip_pings :
          (i < k /\ k < j) => ip_pings[k].ip_hmac # ip_pings[i].ip_hmac

\* A ping request that carried an address.
IsPing(r) == path[r] = "/api/ping" /\ Truthy(ip[r])

\* C1: when every ping of an identifier completes before the next ping of
\* that identifier starts, any two consecutive stored events of one
\* identifier are at least MIN_INTERVAL apart.
C1_ConsecutiveEventsApart ==
    \A i, j \in DOMAIN ip_pings :
        Consecutive(i, j) =>
            ip_pings[j].ping_timestamp - ip_pings[i].ping_timestamp >= MIN_INTERVAL

\* C1 witness: an identifier has two consecutive events, and a ping of it
\* was throttled as well.
C1_Witness ==
    \E i, j \in DOMAIN ip_pings :
        /\ Consecutive(i, j)
        /\ \E r \in Reqs : /\ IsPing(r)
                           /\ ipHmac[r] = ip_pings[i].ip_hmac
                           /\ response[r] = PingThrottled

\* The newest timestamp among the stored events of identifier h.
LastTimestamp(h) ==
    CHOOSE t \in {ip_pings[i].ping_timestamp : i \in EventsOf(h)} :
        \A i \in EventsOf(h) : ip_pings[i].ping_timestamp <= t

\* The events request r appended.
WrittenBy(r) == {i \in DOMAIN ip_pings : ip_pings[i].by = r}

\* The step in which request r takes its throttle decision.
Decides(r) == pc[r] = "decide" /\ pc'[r] # "decide"

C2_Step ==
    \A r \in Reqs :
        /\ (Decides(r) /\ EventsOf(ipHmac[r]) # {}) =>
              LET elapsed == now - LastTimestamp(ipHmac[r])
              IN  /\ elapsed >= MIN_INTERVAL =>
                        (pc'[r] = "insert" /\ shouldRecordPing'[r])
                  /\ elapsed < MIN_INTERVAL =>
                        /\ pc'[r] = "done"
                        /\ response'[r] = PingThrottled
                        /\ ip_pings' = ip_pings
        /\ (pc[r] = "insert" /\ pc'[r] # "insert") =>
              /\ Len(ip_pings') = Len(ip_pings) + 1
              /\ SubSeq(ip_pings', 1, Len(ip_pings)) = ip_pings
              /\ ip_pings'[Len(ip_pings')].ip_hmac = ipHmac[r]
              /\ response'[r] = PingRecorded

C3_State ==
    \A r \in Reqs :
        (IsPing(r) /\ ~shouldRecordPing[r]) =>
            /\ pc[r] = "done"
            /\ response[r].status = 200
            /\ response[r].success = FALSE
            /\ WrittenBy(r) = {}

C3_Step ==
    \A r \in Reqs :
        (shouldRecordPing[r] /\ ~shouldRecordPing'[r]) => ip_pings' = ip_pings

\* C3: a ping the throttle rejects writes nothing to the event log: the
\* step that rejects it leaves the log as it was, no stored event is its
\* own, and it is answered success = false.
C3_RejectedPingWritesNothing == [](C3_State) /\ [][C3_Step]_vars

\* C3 witness: a throttled ping whose identifier still has exactly one
\* stored event, while another identifier has events too.
C3_Witness ==
    \E r \in Reqs :
        /\ IsPing(r) /\ ~shouldRecordPing[r] /\ pc[r] = "done"
        /\ Cardinality(EventsOf(ipHmac[r])) = 1
        /\ \E i \in DOMAIN ip_pings : ip_pings[i].ip_hmac # ipHmac[r]

\* C4: the first ping of an identifier is always recorded: a completed
\* ping whose identifier has no event stored by any other request was
\* answered success = true and appended exactly one event, whatever the
\* time and whatever the events of other identifiers.
C4_FirstPingRecorded ==
    \A r \in Reqs :
        ( /\ IsPing(r) /\ pc[r] = "done"
          /\ \A i \in EventsOf(IdOf(ip[r])) : ip_pings[i].by = r ) =>
            /\ response[r].status = 200
            /\ response[r].success = TRUE
            /\ Cardinality(EventsOf(IdOf(ip[r]))) = 1

\* C4 witness: the first ping of an identifier recorded at a time other
\* than the start, after another identifier had stored an event.
C4_Witness ==
    \E r \in Reqs :
        /\ IsPing(r) /\ pc[r] = "done" /\ response[r].success
        /\ \A i \in EventsOf(IdOf(ip[r])) : ip_pings[i].by = r
        /\ \E i \in WrittenBy(r), j \in DOMAIN ip_pings :
              /\ j < i
              /\ ip_pings[j].ip_hmac # ip_pings[i].ip_hmac
              /\ ip_pings[i].ping_timestamp > ip_pings[j].ping_timestamp

\* The rows of the registry that hold identifier h.
RowsOf(h) == {i \in DOMAIN ip_registry : ip_registry[i].ip_hmac = h}

\* Request r has run upsertIp.
Registered(r) == Truthy(ip[r]) /\ pc[r] # "idle"

\* C5: whatever number of ping and makefile requests ran upsertIp for an
\* address, one after the other or interleaved, the registry holds exactly
\* one row for its identifier, and no row for anything else.
C5_RegisterIfAbsentIdempotent ==
    /\ \A a \in Addrs :
          Cardinality(RowsOf(IdOf(a))) =
              IF \E r \in Reqs : Registered(r) /\ ip[r] = a THEN 1 ELSE 0
    /\ \A i \in DOMAIN ip_registry :
          \E a \in Addrs : ip_registry[i].ip_hmac = IdOf(a)

\* C5 witness: a makefile request registered an address while a ping of the
\* same address was under way, and another address is registered too.
C5_Witness ==
    \E r1, r2, r3 \in Reqs :
        /\ r1 < r2
        /\ IsPing(r1) /\ pc[r1] \in {"read", "decide", "insert"}
        /\ path[r2] = "/makefile" /\ ip[r2] = ip[r1] /\ pc[r2] = "done"
        /\ Registered(r3) /\ ip[r3] # ip[r1]
        /\ Len(ip_registry) = 2

C6_Step ==
    \A r \in Reqs :
        (pc[r] = "insert" /\ pc'[r] = "done") =>
            \A i \in EventsOf(ipHmac[r]) :
                (now - ip_pings[i].ping_timestamp < MIN_INTERVAL) =>
                    \/ lastPingResult[r] = << >>
                    \/ lastPingResult[r][1].ping_timestamp
                           < ip_pings[i].ping_timestamp

\* C6: an event is appended less than MIN_INTERVAL after a stored event of
\* its identifier only by a request that read the last timestamp before
\* that stored event was appended (it read none, or an older one); nothing
\* else excludes such a pair, and it is reached.
C6_CloseEventsOnlyByRace == [][C6_Step]_vars

\* C6 witness: two stored events of one identifier less than MIN_INTERVAL
\* apart, appended by two different requests.
C6_Witness ==
    \E i, j \in DOMAIN ip_pings :
        /\ i < j
        /\ ip_pings[i].ip_hmac = ip_pings[j].ip_hmac
        /\ ip_pings[i].by # ip_pings[j].by
        /\ ip_pings[j].ping_timestamp - ip_pings[i].ping_timestamp < MIN_INTERVAL

\* C7: a ping that carried an address is answered with status 200, and its
\* success flag is true exactly when it appended one event; success =
\* false means it appended none.  Before it is answered it has appended
\* nothing.
C7_SuccessIffOneEventAppended ==
    \A r \in Reqs :
        IsPing(r) =>
            IF pc[r] = "done"
            THEN /\ response[r].status = 200
                 /\ response[r].success <=> Cardinality(WrittenBy(r)) = 1
                 /\ ~response[r].success => WrittenBy(r) = {}
            ELSE response[r] = NoResponse /\ WrittenBy(r) = {}

\* C7 witness: of two answered pings of one identifier, one succeeded and
\* one did not.
C7_Witness ==
    \E r, q \in Reqs :
        /\ IsPing(r) /\ IsPing(q) /\ ip[r] = ip[q]
        /\ pc[r] = "done" /\ pc[q] = "done"
        /\ response[r].success /\ ~response[q].success

\* A ping request that carried no address.
IsPingWithoutAddress(r) == path[r] = "/api/ping" /\ ~Truthy(ip[r])

C8_State ==
    \A r \in Reqs :
        IsPingWithoutAddress(r) =>
            /\ pc[r] = "done"
            /\ response[r].status = 400
            /\ response[r].success = FALSE
            /\ ipHmac[r] = << >>
            /\ lastPingResult[r] = << >>
            /\ WrittenBy(r) = {}

C8_Step ==
    \A r \in Reqs :
        (pc[r] = "idle" /\ pc'[r] # "idle" /\ path'[r] = "/api/ping"
            /\ ~Truthy(ip'[r])) =>
                /\ ip_registry' = ip_registry
                /\ ip_pings' = ip_pings

\* C8: a ping without a caller address is answered 400 with success =
\* false in the step that receives it: that step leaves the registry and
\* the event log as they were, and the request never reaches a statement.
C8_MissingAddressRejected == [](C8_State) /\ [][C8_Step]_vars

\* C8 witness: a ping without address answered 400 while the registry and
\* the event log hold rows.
C8_Witness ==
    \E r \in Reqs :
        /\ IsPingWithoutAddress(r) /\ pc[r] = "done"
        /\ response[r] = PingNoAddress
        /\ ip_registry # << >> /\ ip_pings # << >>

\* The number a page or pageSize parameter asks for: its leading decimal
\* integer; none when the parameter is absent, empty or has no such prefix.
Requested(p) == IF TruthyParam(p) THEN parseInt(p.text) ELSE NaN

\* The statement of C9 as written: a page size below 1 becomes 1.
C9_AsWritten ==
    query.stage = "resolved" =>
        LET p == Requested(query.pageParam)
            z == Requested(query.pageSizeParam)
        IN  /\ query.page >= 1
            /\ (isNaN(p) \/ LessThan(p, 1)) => query.page = 1
            /\ query.pageSize >= 1 /\ query.pageSize <= 100
            /\ GreaterThan(z, 100) => query.pageSize = 100
            /\ LessThan(z, 1) => query.pageSize = 1
            /\ isNaN(z) => query.pageSize = 10

\* C9 (amended): the resolved page is >= 1 (a requested page below 1 or
\* not numeric becomes 1, any other is kept) and the resolved page size is
\* within [1, 100]: a page size above 100 becomes 100, a page size below 1
\* becomes the default 10, as an absent or non-numeric one does, and any
\* other is kept.
C9_PageAndPageSizeResolved ==
    query.stage = "resolved" =>
        LET p == Requested(query.pageParam)
            z == Requested(query.pageSizeParam)
        IN  /\ query.page >= 1
            /\ (isNaN(p) \/ LessThan(p, 1)) => query.page = 1
            /\ (~isNaN(p) /\ ~LessThan(p, 1)) => query.page = p.n
            /\ query.pageSize >= 1 /\ query.pageSize <= 100
            /\ GreaterThan(z, 100) => query.pageSize = 100
            /\ LessThan(z, 1) => query.pageSize = 10
            /\ isNaN(z) => query.pageSize = 10
            /\ (~isNaN(z) /\ ~LessThan(z, 1) /\ ~GreaterThan(z, 100)) =>
                   query.pageSize = z.n

\* C9 witness: pageSize=0 resolved to the default 10, with page=-1 resolved
\* to 1.
C9_Witness ==
    /\ query.stage = "resolved"
    /\ query.pageSizeParam = Param(<<"0">>)
    /\ query.pageParam = Param(<<"-", "1">>)
    /\ query.pageSize = 10
    /\ query.page = 1

\* C10: whatever sortBy and sortOrder are (absent, empty, any text), the
\* ORDER BY fragment is first_seen or total_pings followed by ASC or DESC:
\* an enumerated value selects its own literal, any other sortBy resolves
\* to first_seen and any other sortOrder to DESC.
C10_OrderByAllowListed ==
    query.stage = "resolved" =>
        /\ query.orderBy \in {"first_seen", "total_pings"} \X {"ASC", "DESC"}
        /\ query.orderBy[1] =
               IF query.sortByParam = "total_pings" THEN "total_pings"
               ELSE "first_seen"
        /\ query.orderBy[2] =
               IF query.sortOrderParam = "asc" THEN "ASC" ELSE "DESC"

\* C10 witness: sortBy "drop table" and a sortOrder carrying a statement
\* resolved to first_seen DESC.
C10_Witness ==
    /\ query.stage = "resolved"
    /\ query.sortByParam = "drop table"
    /\ query.sortOrderParam = "desc; drop table ip_pings"
    /\ query.orderBy = <<"first_seen", "DESC">>

\* C17: the range getDateRange returns for an explicit now ends at now;
\* for "24h" it starts exactly 24 hours before now; for "7d" and "30d" it
\* starts at 00:00:00.000 of the day 7 and 30 days before now; "all" has
\* no range; and the start of a range is never after its end.
C17_DateRangeAnchoredAtNow ==
    query.stage = "range" =>
        LET d == query.currentDate
            at(day, ms) == toISOString([day |-> day, ms |-> ms])
            R == query.dateRange
        IN  /\ query.period = "all" => R = << >>
            /\ query.period \in {"24h", "7d", "30d"} =>
                  /\ Len(R) = 1
                  /\ R[1].endISO = at(d.day, d.ms)
                  /\ IsoLessOrEqual(R[1].startISO, R[1].endISO)
            /\ query.period = "24h" => R[1].startISO = at(d.day - 1, d.ms)
            /\ query.period = "7d" => R[1].startISO = at(d.day - 7, 0)
            /\ query.period = "30d" => R[1].startISO = at(d.day - 30, 0)

\* A "7d" range asked in the middle of 2024-03-05: it starts at midnight
\* of 2024-02-27, across the leap day.
C17_Witness ==
    /\ query.stage = "range"
    /\ query.period = "7d"
    /\ query.currentDate.day = DaysFromCivil(2024, 3, 5)
    /\ query.currentDate.ms \notin {0, msPerDay - 1}
    /\ query.dateRange[1].startISO = <<2024, 2, 27, 0, 0, 0, 0>>
    /\ query.dateRange[1].endISO[3] = 5

\* C11: a grouped-by-day request whose period is absent or not one of the
\* period tokens is answered for "30d": its date range is the range of
\* "30d", from the midnight 30 days before now to now, and never the
\* missing range of "all"; a count type that is absent or not recognised
\* is "unique"; recognised values are kept, so resolution always yields a
\* period token and a count type.
C11_GroupedDefaults ==
    query.stage = "grouped" =>
        LET periods == {"24h", "7d", "30d", "6month", "all"}
            today == DateOf(now)
        IN  /\ query.parsedPeriod \in periods
            /\ query.parsedCountType \in {"unique", "total"}
            /\ query.periodParam \in periods =>
                  query.parsedPeriod = query.periodParam
            /\ query.countTypeParam \in {"unique", "total"} =>
                  query.parsedCountType = query.countTypeParam
            /\ query.countTypeParam \notin {"unique", "total"} =>
                  query.parsedCountType = "unique"
            /\ query.periodParam \notin periods =>
                  /\ query.parsedPeriod = "30d"
                  /\ query.dateRange =
                        <<[startISO |-> toISOString([day |-> today.day - 30,
                                                     ms |-> 0]),
                           endISO |-> toISOString(today)]>>

\* A request for period "1y" and count type "distinct" over a log with
\* two events of one identifier on one day: it is answered for the last
\* 30 days, with the unique count 1.
C11_Witness ==
    /\ query.stage = "grouped"
    /\ query.periodParam = "1y"
    /\ query.countTypeParam = "distinct"
    /\ query.dateRange # << >>
    /\ Len(ip_pings) = 2
    /\ Len(query.results) = 1
    /\ query.results[1].count = 1

\* C12: for period "all" the grouped-by-day result has exactly one entry
\* for each calendar day on which the event log has an event and none for
\* any other day, in strictly ascending order of day; the count of an
\* entry is the number of distinct identifiers with an event on its day
\* for count type "unique", and the number of events on its day for
\* count type "total".
C12_GroupedByDayAll ==
    (query.stage = "grouped" /\ query.parsedPeriod = "all") =>
        LET R == query.results
            dayNumber(i) == ip_pings[i].ping_timestamp \div msPerDay
            numberOf(day) == DaysFromCivil(day[1], day[2], day[3])
            eventsOn(n) == {i \in DOMAIN ip_pings : dayNumber(i) = n}
        IN  /\ {numberOf(R[k].day) : k \in DOMAIN R}
                  = {dayNumber(i) : i \in DOMAIN ip_pings}
            /\ \A k \in DOMAIN R :
                  k < Len(R) => numberOf(R[k].day) < numberOf(R[k + 1].day)
            /\ \A k \in DOMAIN R :
                  R[k].count =
                      IF query.parsedCountType = "unique"
                      THEN Cardinality({ip_pings[i].ip_hmac :
                                           i \in eventsOn(numberOf(R[k].day))})
                      ELSE Cardinality(eventsOn(numberOf(R[k].day)))

\* Two identifiers ping once on 1970-01-01 and one of them pings twice on
\* 1970-01-02: the unique counts over "all" are 2 and 1.
C12_Witness ==
    /\ query.stage = "grouped"
    /\ query.periodParam = "all"
    /\ query.parsedCountType = "unique"
    /\ Len(ip_pings) = 4
    /\ ip_pings[3].ip_hmac = ip_pings[4].ip_hmac
    /\ query.results = <<[day |-> <<1970, 1, 1>>, count |-> 2],
                         [day |-> <<1970, 1, 2>>, count |-> 1]>>

\* C13 as written: the totalItems of a unique-activity answer is the
\* number of distinct identifiers the system has seen, that is, of the
\* identifiers of the registry.
C13_AsWritten ==
    query.stage = "resolved" =>
        query.pagination.totalItems
            = Cardinality({ip_registry[i].ip_hmac : i \in DOMAIN ip_registry})

\* C13: the totalItems of a unique-activity answer is the number of
\* distinct identifiers with at least one event in the event log, whatever
\* the page, page size, sort column and sort order of the request;
\* identifiers that are registered without an event are not counted.
C13_TotalItemsCountsIdentifiersWithEvents ==
    query.stage = "resolved" =>
        /\ query.pagination.totalItems
              = Cardinality({ip_pings[i].ip_hmac : i \in DOMAIN ip_pings})
        /\ query.pagination.totalItems
              <= Cardinality({ip_registry[i].ip_hmac : i \in DOMAIN ip_registry})

\* Three identifiers are registered and two of them have events: the
\* second page of size 1, sorted by total_pings, reports 2 items.
C13_Witness ==
    /\ query.stage = "resolved"
    /\ Len(ip_registry) = 3
    /\ Cardinality({ip_pings[i].ip_hmac : i \in DOMAIN ip_pings}) = 2
    /\ query.page = 2
    /\ query.pageSize = 1
    /\ query.sortBy = "total_pings"
    /\ query.pagination.totalItems = 2

\* C14: a unique-activity answer for resolved page and page size has
\* offset (page - 1) * pageSize, reports page as currentPage, reports as
\* totalPages the least number of pages of pageSize rows that hold
\* totalItems rows (0 when there are none), and its page holds the rows
\* after the offset, at most pageSize of them.
C14_PaginationArithmetic ==
    query.stage = "resolved" =>
        LET P == query.pagination
            groups == Cardinality({ip_pings[i].ip_hmac : i \in DOMAIN ip_pings})
            rest == IF groups > query.offset THEN groups - query.offset ELSE 0
        IN  /\ query.offset = (query.page - 1) * query.pageSize
            /\ P.currentPage = query.page
            /\ P.pageSize = query.pageSize
            /\ P.totalPages >= 0
            /\ P.totalPages * P.pageSize >= P.totalItems
            /\ P.totalPages > 0 => (P.totalPages - 1) * P.pageSize < P.totalItems
            /\ P.totalItems = 0 => P.totalPages = 0
            /\ Len(query.data) <= query.pageSize
            /\ Len(query.data) = IF rest < query.pageSize THEN rest
                                 ELSE query.pageSize

\* Three identifiers have events: page 2 of size 2 starts at offset 2,
\* holds the one remaining row and is the last of 2 pages.
C14_Witness ==
    /\ query.stage = "resolved"
    /\ query.pageParam = Param(<<"2">>)
    /\ query.pageSizeParam = Param(<<"2">>)
    /\ query.offset = 2
    /\ query.pagination.totalItems = 3
    /\ query.pagination.totalPages = 2
    /\ Len(query.data) = 1

\* C15: over a fixed event log the summary reports the number of events
\* as totalPings and the number of distinct identifiers among them as
\* totalUniqueUsers; mostActiveUser is null exactly when the log is
\* empty, and otherwise names an identifier of the log with its number of
\* events, which no identifier exceeds.
C15_SummaryOverFixedLog ==
    query.stage = "summary" =>
        LET ids == {ip_pings[i].ip_hmac : i \in DOMAIN ip_pings}
            events(h) ==
                Cardinality({i \in DOMAIN ip_pings : ip_pings[i].ip_hmac = h})
            M == query.mostActiveUser
        IN  /\ query.totalPings = Len(ip_pings)
            /\ query.totalUniqueUsers = Cardinality(ids)
            /\ M = << >> <=> ip_pings = << >>
            /\ M # << >> =>
                  /\ M[1].ipHmac \in ids
                  /\ M[1].pingCount = events(M[1].ipHmac)
                  /\ \A h \in ids : events(h) <= M[1].pingCount

\* Four events, one of the first identifier and then three of the second:
\* the summary reports 4 pings, 2 users, and the second identifier with 3.
C15_Witness ==
    /\ query.stage = "summary"
    /\ query.totalPings = 4
    /\ query.totalUniqueUsers = 2
    /\ query.mostActiveUser # << >>
    /\ query.mostActiveUser[1].ipHmac = ip_pings[4].ip_hmac
    /\ query.mostActiveUser[1].ipHmac # ip_pings[1].ip_hmac
    /\ query.mostActiveUser[1].pingCount = 3

\* C16: a request that met a storage failure, on the ping path or on the
\* summary, grouped-by-day or unique-activity path, has been answered by
\* the handler's own catch with a generic server-error response: no
\* request ends in an uncaught exception.
C16_StorageFailureCaught ==
    /\ \A r \in Reqs : response[r] # UncaughtException
    /\ query.stage = "failed" =>
          /\ query.caught
          /\ query.response # << >>
          /\ query.response[1].status = 500

C19_OnlyKeyedIdentifierPersisted ==
    LET columns == {"ip_hash", "ip_hmac"}
        valuesOf(rows) ==
            UNION {{rows[i][c] : c \in columns \cap DOMAIN rows[i]} :
                      i \in DOMAIN rows}
    IN  \A v \in valuesOf(ip_registry) \cup valuesOf(ip_pings) :
            v # NULL =>
                /\ v[1] = "HMAC-SHA-256"
                /\ v[2] = env.IP_HASH_PEPPER

\* C20: a ping request takes its steps in the order hash and upsert, read
\* of the last timestamp, decision, append: from the upsert on its
\* identifier is in the registry, the registry is written by the first
\* step only and the event log by the append step only, after a decision
\* to record; and every stored event names an identifier the registry
\* holds, however the requests interleave.
C20_State ==
    /\ \A i \in DOMAIN ip_pings :
          \E j \in DOMAIN ip_registry :
              ip_registry[j].ip_hmac = ip_pings[i].ip_hmac
    /\ \A r \in Reqs :
          (IsPing(r) /\ pc[r] \in {"read", "decide", "insert"}) =>
              /\ ipHmac[r] = IdOf(ip[r])
              /\ \E j \in DOMAIN ip_registry : ip_registry[j].ip_hmac = ipHmac[r]
    /\ \A r \in Reqs : pc[r] = "insert" => shouldRecordPing[r]

C20_Step ==
    /\ \A r \in Reqs :
          (pc'[r] # pc[r] /\ path'[r] = "/api/ping") =>
              /\ <<pc[r], pc'[r]>> \in
                    {<<"idle", "read">>, <<"idle", "done">>,
                     <<"read", "decide">>, <<"decide", "insert">>,
                     <<"decide", "done">>, <<"insert", "done">>}
              /\ ip_registry' # ip_registry => pc[r] = "idle"
              /\ ip_pings' # ip_pings =>
                    /\ pc[r] = "insert"
                    /\ ip_pings' =
                          Append(ip_pings, [ip_hmac |-> ipHmac[r],
                                            ping_timestamp |-> now, by |-> r])
    /\ ip_pings' # ip_pings => \E r \in Reqs : pc[r] = "insert" /\ pc'[r] = "done"

C20_StepsInOrderAndEventsRegistered == [](C20_State) /\ [][C20_Step]_vars

\* Two pings of one address interleave: the second is about to append
\* while the event of the first is stored, and the one registry row of
\* their identifier is referenced by it.
C20_Witness ==
    \E r1, r2 \in Reqs :
        /\ r1 # r2
        /\ IsPing(r1) /\ IsPing(r2)
        /\ ip[r1] = ip[r2]
        /\ WrittenBy(r1) # {}
        /\ pc[r2] = "insert"
        /\ Len(ip_registry) = 1
        /\ ip_registry[1].ip_hmac = ip_pings[1].ip_hmac

\* C21: a row of the registry, once created, is never updated and never
\* deleted: every step keeps each existing row as it is, at its place, so
\* the registry only grows, and registering a known address again changes
\* no field of its row.
C21_Step ==
    /\ Len(ip_registry') >= Len(ip_registry)
    /\ \A i \in DOMAIN ip_registry : ip_registry'[i] = ip_registry[i]

C21_RegistryRowsImmutable == [][C21_Step]_vars

\* C22: the event log is append-only and grows only through an approved
\* ping: a step that changes it appends one event, for the identifier of
\* a ping request that decided to record and is then answered as
\* recorded, and leaves every stored event as it is; a makefile request,
\* a read request (summary, grouped-by-day, unique-activity, listing) and
\* a ping that is rejected or has no address leave it unchanged.
C22_Step ==
    /\ Len(ip_pings') >= Len(ip_pings)
    /\ \A i \in DOMAIN ip_pings : ip_pings'[i] = ip_pings[i]
    /\ ip_pings' # ip_pings =>
          \E r \in Reqs :
              /\ IsPing(r)
              /\ pc[r] = "insert" /\ pc'[r] = "done"
              /\ shouldRecordPing[r]
              /\ response'[r] = PingRecorded
              /\ ip_pings' = Append(ip_pings, [ip_hmac |-> ipHmac[r],
                                               ping_timestamp |-> now,
                                               by |-> r])
    /\ query' # query => ip_pings' = ip_pings
    /\ \A r \in Reqs :
          (pc'[r] # pc[r] /\ path'[r] = "/makefile") => ip_pings' = ip_pings
    /\ \A r \in Reqs :
          (pc'[r] # pc[r] /\ pc'[r] = "done" /\ response'[r] # PingRecorded)
              => ip_pings' = ip_pings

C22_EventLogAppendOnly == [][C22_Step]_vars

\* One ping was recorded; a makefile request, a rejected ping and a
\* listing of the pings followed, and the log still holds that one event.
C22_Witness ==
    \E r1, r2, r3 \in Reqs :
        /\ WrittenBy(r1) # {}
        /\ path[r2] = "/makefile" /\ pc[r2] = "done"
        /\ response[r3] = PingThrottled
        /\ query.stage = "pings"
        /\ Len(query.results) = 1
        /\ Len(ip_pings) = 1

\* The interval a rejection message names.
IntervalNamed(message) ==
    CASE message = "Ping not recorded - less than 30 minutes since last ping"
            -> 30 * msPerMinute
      [] message = "Ping not recorded - less than 1 hour since last ping"
            -> msPerHour

\* The message of every ping handler names the interval the handler
\* compares against.
MessagesNameThresholds ==
    query.stage = "decided" =>
        \A v \in 1..3 :
            query.record[v] =
                (\/ query.last = << >>
                 \/ query.current - query.last[1].ping_timestamp
                        >= IntervalNamed(query.rejection[v]))

\* C23: MIN_INTERVAL is one value: for every last timestamp and current
\* time the three ping handlers of the source take the same decision, and
\* the message of each names the interval it compares against.
C23_OneMinInterval ==
    /\ MessagesNameThresholds
    /\ query.stage = "decided" =>
          /\ query.record[1] = query.record[2]
          /\ query.record[2] = query.record[3]

\* C24: a summary answered while ping requests append events is consistent
\* with one state of the event log: it reports no more unique users than
\* pings, a most active user with no more pings than the total, and no
\* most active user exactly when it reports no pings.
C24_SummaryConsistent ==
    query.stage = "summary" =>
        /\ query.totalUniqueUsers <= query.totalPings
        /\ query.mostActiveUser # << >> =>
              query.mostActiveUser[1].pingCount <= query.totalPings
        /\ query.mostActiveUser = << >> <=> query.totalPings = 0

\* C25: over an unchanged event log and with one pageSize, sortBy and
\* sortOrder, the pages 1..totalPages of the unique-activity query hold
\* every identifier that has an event exactly once, also when identifiers
\* tie on the sort column, and the page after totalPages is empty.
C25_PagesCoverEachIdentifierOnce ==
    query.stage = "walked" =>
        LET places(h) ==
                {<<k, i>> \in (1..query.totalPages) \X (1..Len(ip_pings)) :
                    /\ i <= Len(query.pages[k])
                    /\ query.pages[k][i].ip_hmac = h}
        IN  /\ \A h \in {ip_pings[i].ip_hmac : i \in DOMAIN ip_pings} :
                  Cardinality(places(h)) = 1
            /\ query.pages[query.totalPages + 1] = << >>

====
